---- MODULE Spec2Model ----
(***************************************************************************)
(* Appointment lifecycle of the CRM backend: the appointment table, the    *)
(* AppointmentService create / transition / delete methods, the            *)
(* AppointmentRepository writes they await, and the notification tasks     *)
(* they hand to the Celery channel.                                        *)
(*                                                                         *)
(* A service call is a sequence of steps separated by its awaits:          *)
(*   call (schema validation, object construction)                         *)
(*   -> load (repository.get + status precondition)                        *)
(*   -> update / create / delete (commit + refresh)                        *)
(*   -> dispatch (task.delay) -> return.                                   *)
(* Spec runs the calls one after the other (non-overlapping operations);   *)
(* SpecPair does so on a table that already holds a record; SpecScenario   *)
(* runs one appointment from request to cancellation; SpecList runs a      *)
(* list call (count query, page query, response) on a table of rows.       *)
(* Messages handed to the broker wait in `queue` until the worker runs     *)
(* their task; `worker` is the outcome the last task logged.               *)
(***************************************************************************)
EXTENDS Integers, Sequences, FiniteSets, TLC

VARIABLES store, nextId, now, req, queue, worker

vars == <<store, nextId, now, req, queue, worker>>

(***************************** bounds **************************************)
\* number of appointment rows ever created in one behaviour
MaxRecords == 1
\* last instant of the clock; instants are 0..MaxTime
MaxTime == 1
\* notification messages the broker holds at once
MaxQueue == 1
\* rows of the table a list call runs against
MaxRows == 3
\* instants of the clock per calendar day
DayLen == 2

(*************************** value domains *********************************)
\* Python None for the optional text columns and payload fields
None == "None"
\* NULL appointment_date (Optional[datetime])
NoDate == -1

PENDING == "pending"
UPCOMING == "upcoming"
COMPLETED == "completed"
CANCELLED == "cancelled"
REJECTED == "rejected"
AppointmentStatus == {PENDING, UPCOMING, COMPLETED, CANCELLED, REJECTED}

Ids == 1..MaxRecords
Times == 0..MaxTime
\* datetimes a payload may carry: past, present and future instants
Dates == 0..(MaxTime + 1)
Names == {"Jane Doe"}
Emails == {"jane@x.com", "bob@x.com"}
Contacts == {"+1-555-0100"}
Notes == {"first visit", "all done"}
Reasons == {"Provider unavailable", "No capacity"}

\* the concurrent requests the model keeps; Spec uses the first only
Procs == {1, 2}
SeqProc == CHOOSE p \in Procs : \A q \in Procs : p <= q

\* a request slot with no call in it
NoAppt == [absent |-> TRUE]
NoResult == [kind |-> "none"]
IdleReq == [pc |-> "idle", op |-> "none", id |-> 0, data |-> <<>>,
            appt |-> NoAppt, old_date |-> NoDate, sent |-> <<>>,
            result |-> NoResult]

\* str(datetime) / str(None) as passed to the tasks
Str(d) == IF d = NoDate THEN "None" ELSE ToString(d)

(*************************** schema validation *****************************)
\* what a client may add to a transition payload beside the declared
\* fields: nothing, or both timestamps (a past or a future instant)
SuppliedTimestamps ==
    {<<>>} \cup {("created_at" :> t) @@ ("updated_at" :> t) :
                     t \in {0, MaxTime + 1}}

\* the fields the transition schemas declare
ConfirmAppointment == {"appointment_date", "notes"}
RescheduleAppointment == {"appointment_date"}
CancelAppointment == {"cancellation_reason"}
CompleteAppointment == {"notes"}

\* a pydantic model built from a payload keeps the declared fields and
\* ignores every other key
Validated(schema, payload) == [f \in schema |-> payload[f]]

\* validate_appointment_date: raises when v < now
validate_appointment_date(v, t) == ~(v < t)


(*************************** appointment rows ******************************)
\* Appointment(**appointment_dict) as built by create_pending_request
PendingAppointment(id, data, t) ==
    [id |-> id, name |-> data.name, email |-> data.email,
     contact |-> data.contact, status |-> PENDING, notes |-> data.notes,
     cancellation_reason |-> None, appointment_date |-> NoDate,
     created_at |-> t, updated_at |-> t]

\* mutant: the status assignment is forgotten, the column default applies
MutScheduledAppointment(id, data, t) ==
    [id |-> id, name |-> data.name, email |-> data.email,
     contact |-> data.contact, status |-> PENDING, notes |-> data.notes,
     cancellation_reason |-> None,
     appointment_date |-> data.appointment_date,
     created_at |-> t, updated_at |-> t]

\* Appointment(**appointment_dict) as built by schedule_appointment
ScheduledAppointment(id, data, t) ==
    [id |-> id, name |-> data.name, email |-> data.email,
     contact |-> data.contact, status |-> UPCOMING, notes |-> data.notes,
     cancellation_reason |-> None,
     appointment_date |-> data.appointment_date,
     created_at |-> t, updated_at |-> t]

(************************ status preconditions *****************************)
\* the condition handed to raise_for_status(BadRequestException) by each
\* transition; reschedule has none
\* mutants: a precondition that lets a second status through
MutConfirmRefused(status) == status \notin {PENDING, UPCOMING}
MutCancelRefused(status) == status \notin {UPCOMING, PENDING}
MutRejectRefused(status) == status # UPCOMING
ConfirmRefused(status) == status # PENDING
CancelRefused(status) == status # UPCOMING
RejectRefused(status) == status # PENDING
CompleteRefused(status) == status # UPCOMING
RescheduleRefused(status) == FALSE

Refused(op, status) ==
    CASE op = "confirm" -> ConfirmRefused(status)
      [] op = "cancel" -> CancelRefused(status)
      [] op = "reject" -> RejectRefused(status)
      [] op = "complete" -> CompleteRefused(status)
      [] op = "reschedule" -> RescheduleRefused(status)
      [] OTHER -> FALSE

(**************************** update_dict **********************************)
\* model_dump(exclude_unset=True, exclude_none=True) of an optional notes
DumpNotes(data) ==
    IF data.notes = None THEN <<>> ELSE ("notes" :> data.notes)

\* mutants of the update dictionaries
MutRescheduleUpdate(data) ==
    ("status" :> UPCOMING) @@ ("appointment_date" :> data.appointment_date)
MutCancelUpdate(data) == ("status" :> CANCELLED)
MutCompleteUpdate(data) == ("status" :> COMPLETED) @@ ("notes" :> data.notes)
MutDatelessConfirmUpdate(data) == ("status" :> UPCOMING) @@ DumpNotes(data)
MutConfirmUpdate(data) ==
    ("appointment_date" :> data.appointment_date) @@ DumpNotes(data)

ConfirmUpdate(data) ==
    ("status" :> UPCOMING)
        @@ ("appointment_date" :> data.appointment_date) @@ DumpNotes(data)
RescheduleUpdate(data) == ("appointment_date" :> data.appointment_date)
CancelUpdate(data) ==
    ("status" :> CANCELLED)
        @@ ("cancellation_reason" :> data.cancellation_reason)
RejectUpdate(data) ==
    ("status" :> REJECTED)
        @@ ("cancellation_reason" :> data.cancellation_reason)
CompleteUpdate(data) == ("status" :> COMPLETED) @@ DumpNotes(data)

\* for ts_field in {"created_at", "updated_at"}: update_dict.pop(ts_field)
PopTimestamps(update_dict) ==
    [f \in DOMAIN update_dict \ {"created_at", "updated_at"} |->
        update_dict[f]]

UpdateDict(op, data) ==
    PopTimestamps(
        CASE op = "confirm" -> ConfirmUpdate(data)
          [] op = "reschedule" -> RescheduleUpdate(data)
          [] op = "cancel" -> CancelUpdate(data)
          [] op = "reject" -> RejectUpdate(data)
          [] op = "complete" -> CompleteUpdate(data))

(************************ repository writes ********************************)
\* mutant: the row is replaced: the optional attributes that
\* fields_to_update does not name are reset to NULL
MutSetAttrs(appointment, fields_to_update) ==
    [f \in DOMAIN appointment |->
        IF f \in DOMAIN fields_to_update THEN fields_to_update[f]
        ELSE IF f \in {"notes", "cancellation_reason"} THEN None
        ELSE appointment[f]]

\* setattr(appointment, field, value) for every item of fields_to_update
SetAttrs(appointment, fields_to_update) ==
    [f \in DOMAIN appointment |->
        IF f \in DOMAIN fields_to_update THEN fields_to_update[f]
        ELSE appointment[f]]

\* the columns the flush writes: attributes whose value differs from the
\* value loaded into the session object
Dirty(loaded, changed) == {f \in DOMAIN loaded : changed[f] # loaded[f]}

\* mutant: created_at carries the onupdate clause too
MutCommitted(row, loaded, changed, t) ==
    [f \in DOMAIN row |->
        IF f \in Dirty(loaded, changed) THEN changed[f]
        ELSE IF f \in {"created_at", "updated_at"}
                  /\ Dirty(loaded, changed) # {} THEN t
        ELSE row[f]]

\* the row after commit: dirty columns written, updated_at refreshed by
\* onupdate when an UPDATE is emitted, every other column as stored
Committed(row, loaded, changed, t) ==
    LET dirty == Dirty(loaded, changed)
    IN  [f \in DOMAIN row |->
            IF f \in dirty THEN changed[f]
            ELSE IF f = "updated_at" /\ dirty # {} THEN t
            ELSE row[f]]

(**************************** notifications ********************************)
\* mutant: the old date is read from the row after the update
MutRescheduleEmail(appointment, old_date) ==
    [task |-> "reschedule", email_to |-> appointment.email,
     name |-> appointment.name,
     old_date_str |-> Str(appointment.appointment_date),
     new_date_str |-> Str(appointment.appointment_date)]

AcknowledgementEmail(appointment) ==
    [task |-> "acknowledgement", email_to |-> appointment.email,
     name |-> appointment.name]
BookingEmail(appointment) ==
    [task |-> "booking", email_to |-> appointment.email,
     name |-> appointment.name,
     date_str |-> Str(appointment.appointment_date)]
ConfirmationEmail(appointment) ==
    [task |-> "confirmation", email_to |-> appointment.email,
     name |-> appointment.name,
     date_str |-> Str(appointment.appointment_date)]
RescheduleEmail(appointment, old_date) ==
    [task |-> "reschedule", email_to |-> appointment.email,
     name |-> appointment.name, old_date_str |-> Str(old_date),
     new_date_str |-> Str(appointment.appointment_date)]
CancellationEmail(appointment, reason) ==
    [task |-> "cancellation", email_to |-> appointment.email,
     name |-> appointment.name, reason |-> reason]
RejectionEmail(appointment, reason) ==
    [task |-> "rejection", email_to |-> appointment.email,
     name |-> appointment.name, reason |-> reason]
FollowupEmail(appointment) ==
    [task |-> "followup", email_to |-> appointment.email,
     name |-> appointment.name]

\* the task each method hands to .delay() after its write
Email(r) ==
    CASE r.op = "create_pending" -> AcknowledgementEmail(r.appt)
      [] r.op = "schedule" -> BookingEmail(r.appt)
      [] r.op = "confirm" -> ConfirmationEmail(r.appt)
      [] r.op = "reschedule" -> RescheduleEmail(r.appt, r.old_date)
      [] r.op = "cancel" ->
            CancellationEmail(r.appt, r.data.cancellation_reason)
      [] r.op = "reject" ->
            RejectionEmail(r.appt, r.data.cancellation_reason)
      [] r.op = "complete" -> FollowupEmail(r.appt)

(******************************* Init **************************************)
Init ==
    /\ store = <<>>
    /\ nextId = 1
    /\ now = 0
    /\ req = [p \in Procs |-> IdleReq]
    /\ queue = <<>>
    /\ worker = "idle"

\* a call may start in a slot whose previous call has returned (and, to keep
\* the broker queue bounded, while the queue has room for its message)
Free(p) == req[p].pc \in {"idle", "done"} /\ Len(queue) < MaxQueue

Returned(r, res) ==
    [r EXCEPT !.pc = "done", !.result = res, !.data = <<>>, !.appt = NoAppt,
              !.old_date = NoDate]

Tick ==
    /\ now < MaxTime
    /\ now' = now + 1
    /\ UNCHANGED <<store, nextId, req, queue, worker>>

(**************************** service calls ********************************)
Begin(p, op, id, data, appt, pc) ==
    req' = [req EXCEPT ![p] =
        [pc |-> pc, op |-> op, id |-> id, data |-> data, appt |-> appt,
         old_date |-> NoDate, sent |-> <<>>, result |-> NoResult]]

Refuse(p, op, id, kind) ==
    req' = [req EXCEPT ![p] =
        [IdleReq EXCEPT !.pc = "done", !.op = op, !.id = id,
                        !.result = [kind |-> kind]]]

\* POST /pending: the payload is a validated CreatePublicAppointment; the
\* row object is built (uuid4 id, status, timestamps) before the insert
create_pending_request(p) ==
    /\ Free(p)
    /\ nextId <= MaxRecords
    /\ \E name \in Names, email \in Emails, contact \in Contacts,
          notes \in Notes \cup {None} :
          LET data == [name |-> name, email |-> email, contact |-> contact,
                       notes |-> notes]
          IN  Begin(p, "create_pending", nextId, data,
                    PendingAppointment(nextId, data, now), "create")
    /\ nextId' = nextId + 1
    /\ UNCHANGED <<store, now, queue, worker>>

\* POST /: CreateAdminAppointment validates appointment_date first
schedule_appointment(p) ==
    /\ Free(p)
    /\ nextId <= MaxRecords
    /\ \E name \in Names, email \in Emails, contact \in Contacts,
          notes \in Notes \cup {None}, date \in Dates :
          LET data == [name |-> name, email |-> email, contact |-> contact,
                       notes |-> notes, appointment_date |-> date]
          IN  IF validate_appointment_date(date, now)
              THEN /\ Begin(p, "schedule", nextId, data,
                            ScheduledAppointment(nextId, data, now), "create")
                   /\ nextId' = nextId + 1
              ELSE /\ Refuse(p, "schedule", 0, "ValidationError")
                   /\ UNCHANGED nextId
    /\ UNCHANGED <<store, now, queue, worker>>

\* PATCH /{id}/confirm with a ConfirmAppointment payload
confirm_appointment(p) ==
    /\ Free(p)
    /\ \E id \in Ids, date \in Dates, notes \in Notes \cup {None},
          extra \in SuppliedTimestamps :
          IF validate_appointment_date(date, now)
          THEN Begin(p, "confirm", id,
                     Validated(ConfirmAppointment,
                               [appointment_date |-> date, notes |-> notes]
                                   @@ extra),
                     NoAppt, "load")
          ELSE Refuse(p, "confirm", id, "ValidationError")
    /\ UNCHANGED <<store, nextId, now, queue, worker>>

\* PATCH /{id}/reschedule with a RescheduleAppointment payload
reschedule_appointment(p) ==
    /\ Free(p)
    /\ \E id \in Ids, date \in Dates, extra \in SuppliedTimestamps :
          IF validate_appointment_date(date, now)
          THEN Begin(p, "reschedule", id,
                     Validated(RescheduleAppointment,
                               [appointment_date |-> date] @@ extra),
                     NoAppt, "load")
          ELSE Refuse(p, "reschedule", id, "ValidationError")
    /\ UNCHANGED <<store, nextId, now, queue, worker>>

\* PATCH /{id}/cancel with a CancelAppointment payload
cancel_appointment(p) ==
    /\ Free(p)
    /\ \E id \in Ids, reason \in Reasons, extra \in SuppliedTimestamps :
          Begin(p, "cancel", id,
                Validated(CancelAppointment,
                          [cancellation_reason |-> reason] @@ extra),
                NoAppt, "load")
    /\ UNCHANGED <<store, nextId, now, queue, worker>>

\* PATCH /{id}/reject with a CancelAppointment payload
reject_appointment(p) ==
    /\ Free(p)
    /\ \E id \in Ids, reason \in Reasons, extra \in SuppliedTimestamps :
          Begin(p, "reject", id,
                Validated(CancelAppointment,
                          [cancellation_reason |-> reason] @@ extra),
                NoAppt, "load")
    /\ UNCHANGED <<store, nextId, now, queue, worker>>

\* complete with a CompleteAppointment payload
complete_appointment(p) ==
    /\ Free(p)
    /\ \E id \in Ids, notes \in Notes \cup {None},
          extra \in SuppliedTimestamps :
          Begin(p, "complete", id,
                Validated(CompleteAppointment, [notes |-> notes] @@ extra),
                NoAppt, "load")
    /\ UNCHANGED <<store, nextId, now, queue, worker>>

\* GET /{id}
get_appointment(p) ==
    /\ Free(p)
    /\ \E id \in Ids : Begin(p, "get", id, <<>>, NoAppt, "load")
    /\ UNCHANGED <<store, nextId, now, queue, worker>>

\* DELETE /{id}
delete_appointment(p) ==
    /\ Free(p)
    /\ \E id \in Ids : Begin(p, "delete", id, <<>>, NoAppt, "load")
    /\ UNCHANGED <<store, nextId, now, queue, worker>>

(*************************** steps of a call *******************************)
\* mutant: the notification is handed over without the write
MutAfterLoad(op) == IF op = "delete" THEN "delete" ELSE "dispatch"

\* where a transition goes once its record is loaded and accepted
AfterLoad(op) == IF op = "delete" THEN "delete" ELSE "update"

\* mutant: absence is reported as a failure of the server
MutResourceNotFound == [kind |-> "InternalServerError"]

\* ResourceNotFound raised by raise_for_status when repository.get gives None
ResourceNotFound == [kind |-> "NotFound"]

\* repository.get, then raise_for_status on absence and on the status
get_appointment_by_id(p) ==
    LET r == req[p]
    IN  /\ r.pc = "load"
        /\ req' = [req EXCEPT ![p] =
              IF r.id \notin DOMAIN store
              THEN Returned(r, ResourceNotFound)
              ELSE IF Refused(r.op, store[r.id].status)
              THEN Returned(r, [kind |-> "BadRequest",
                                status |-> store[r.id].status])
              ELSE IF r.op = "get"
              THEN Returned(r, [kind |-> "ok", value |-> store[r.id]])
              ELSE [r EXCEPT !.pc = AfterLoad(r.op), !.appt = store[r.id],
                       !.old_date = IF r.op = "reschedule"
                                    THEN store[r.id].appointment_date
                                    ELSE NoDate]]
        /\ UNCHANGED <<store, nextId, now, queue, worker>>

\* @handle_exceptions(default_exception=InternalServerError): an exception
\* raised inside a repository method leaves it as InternalServerError
handle_exceptions == [kind |-> "InternalServerError"]

\* AppointmentRepository.create: add, commit, refresh
create(p) ==
    LET r == req[p]
    IN  /\ r.pc = "create"
        /\ store' = (r.id :> r.appt) @@ store
        /\ req' = [req EXCEPT ![p] = [r EXCEPT !.pc = "dispatch"]]
        /\ UNCHANGED <<nextId, now, queue, worker>>

\* mutant: the UPDATE is conditional on the status the row was loaded with
Mut_update(p) ==
    LET r == req[p]
        changed == SetAttrs(r.appt, UpdateDict(r.op, r.data))
    IN  /\ r.pc = "update"
        /\ IF r.id \in DOMAIN store /\ store[r.id].status = r.appt.status
           THEN LET row == Committed(store[r.id], r.appt, changed, now)
                IN  /\ store' = [store EXCEPT ![r.id] = row]
                    /\ req' = [req EXCEPT ![p] =
                          [r EXCEPT !.pc = "dispatch", !.appt = row]]
           ELSE /\ req' = [req EXCEPT ![p] = Returned(r, handle_exceptions)]
                /\ UNCHANGED store
        /\ UNCHANGED <<nextId, now, queue, worker>>

\* AppointmentRepository.update: setattr loop, add, commit, refresh
update(p) ==
    LET r == req[p]
        changed == SetAttrs(r.appt, UpdateDict(r.op, r.data))
    IN  /\ r.pc = "update"
        /\ IF r.id \in DOMAIN store
           THEN LET row == Committed(store[r.id], r.appt, changed, now)
                IN  /\ store' = [store EXCEPT ![r.id] = row]
                    /\ req' = [req EXCEPT ![p] =
                          [r EXCEPT !.pc = "dispatch", !.appt = row]]
           ELSE \* the row was deleted meanwhile: the flush matches no row
                /\ req' = [req EXCEPT ![p] = Returned(r, handle_exceptions)]
                /\ UNCHANGED store
        /\ UNCHANGED <<nextId, now, queue, worker>>

\* AppointmentRepository.create whose commit raises: the INSERT is rolled
\* back, the exception leaves the service method before any task.delay
create_fails(p) ==
    LET r == req[p]
    IN  /\ r.pc = "create"
        /\ req' = [req EXCEPT ![p] = Returned(r, handle_exceptions)]
        /\ UNCHANGED <<store, nextId, now, queue, worker>>

\* mutant: the status column is written although the commit raises
Mut_update_fails(p) ==
    LET r == req[p]
    IN  /\ r.pc = "update"
        /\ r.id \in DOMAIN store
        /\ req' = [req EXCEPT ![p] = Returned(r, handle_exceptions)]
        /\ store' = [store EXCEPT ![r.id].status =
                          SetAttrs(r.appt, UpdateDict(r.op, r.data)).status]
        /\ UNCHANGED <<nextId, now, queue, worker>>

\* AppointmentRepository.update whose commit raises: the UPDATE is rolled
\* back, the exception leaves the service method before any task.delay
update_fails(p) ==
    LET r == req[p]
    IN  /\ r.pc = "update"
        /\ r.id \in DOMAIN store
        /\ req' = [req EXCEPT ![p] = Returned(r, handle_exceptions)]
        /\ UNCHANGED <<store, nextId, now, queue, worker>>

\* mutant: the DELETE statement has no WHERE clause
MutDeleted(rows, obj_id) == <<>>

\* the table after DELETE FROM appointment WHERE id = obj_id
Deleted(rows, obj_id) == [i \in DOMAIN rows \ {obj_id} |-> rows[i]]

\* AppointmentRepository.delete: DELETE ... WHERE id = obj_id, commit
delete(p) ==
    LET r == req[p]
    IN  /\ r.pc = "delete"
        /\ store' = Deleted(store, r.id)
        /\ req' = [req EXCEPT ![p] = Returned(r, [kind |-> "ok"])]
        /\ UNCHANGED <<nextId, now, queue, worker>>

\* task.delay(...) hands the message to the broker, then the method returns
\* the refreshed row
send_email(p) ==
    LET r == req[p]
    IN  /\ r.pc = "dispatch"
        /\ req' = [req EXCEPT ![p] =
              Returned([r EXCEPT !.sent = Append(r.sent, Email(r))],
                       [kind |-> "ok", value |-> r.appt])]
        /\ queue' = Append(queue, Email(r))
        /\ UNCHANGED <<store, nextId, now, worker>>

\* mutant: the failed hand-over discards the row the call has written
Mut_send_email_raises(p) ==
    LET r == req[p]
    IN  /\ r.pc = "dispatch"
        /\ req' = [req EXCEPT ![p] =
              Returned(r, [kind |-> "OperationalError"])]
        /\ store' = [i \in DOMAIN store \ {r.id} |-> store[i]]
        /\ UNCHANGED <<nextId, now, queue, worker>>

\* task.delay(...) raises (broker unreachable): nothing in the service
\* method catches it, so the call ends with that exception
send_email_raises(p) ==
    LET r == req[p]
    IN  /\ r.pc = "dispatch"
        /\ req' = [req EXCEPT ![p] =
              Returned(r, [kind |-> "OperationalError"])]
        /\ UNCHANGED <<store, nextId, now, queue, worker>>

(************************* the Celery worker *******************************)
\* a notification task runs in the worker: the email function either sends
\* the message or raises; the task catches the exception and only logs it.
\* No task reads or writes the appointment table.
email_task ==
    /\ queue # <<>>
    /\ queue' = Tail(queue)
    /\ \E outcome \in {"sent", "failed"} : worker' = outcome
    /\ UNCHANGED <<store, nextId, now, req>>

Call(p) ==
    \/ create_pending_request(p)
    \/ schedule_appointment(p)
    \/ confirm_appointment(p)
    \/ reschedule_appointment(p)
    \/ cancel_appointment(p)
    \/ reject_appointment(p)
    \/ complete_appointment(p)
    \/ get_appointment(p)
    \/ delete_appointment(p)

Step(p) ==
    \/ get_appointment_by_id(p)
    \/ create(p)
    \/ create_fails(p)
    \/ update(p)
    \/ update_fails(p)
    \/ delete(p)
    \/ send_email(p)
    \/ send_email_raises(p)

\* non-overlapping service operations: one call at a time
Next == Tick \/ Call(SeqProc) \/ Step(SeqProc) \/ email_task

Spec == Init /\ [][Next]_vars

(******************* a table that already holds a record *******************)
\* the id of a record created before the behaviour starts; no call of the
\* behaviour names it
OtherId == 0

\* that record as one of the two creation methods left it
OtherRecords ==
    LET data == [name |-> "Jane Doe", email |-> "bob@x.com",
                 contact |-> "+1-555-0100", notes |-> None]
    IN  {PendingAppointment(OtherId, data, 0),
         ScheduledAppointment(OtherId,
                              data @@ ("appointment_date" :> 1), 0)}

InitPair ==
    /\ store \in {(OtherId :> other) : other \in OtherRecords}
    /\ nextId = 1
    /\ now = 0
    /\ req = [p \in Procs |-> IdleReq]
    /\ queue = <<>>
    /\ worker = "idle"

SpecPair == InitPair /\ [][Next]_vars

(************** one appointment from request to cancellation ***************)
\* the previous call in slot p was `op` and returned its result
Last(p, op) ==
    /\ req[p].pc = "done"
    /\ req[p].op = op
    /\ req[p].result.kind = "ok"

\* the calls of the scenario, each on the record the previous one returned:
\* a public request, its confirmation with a future date, its
\* cancellation, and a second cancellation
ScenarioCall(p) ==
    \/ /\ req[p].pc = "idle"
       /\ create_pending_request(p)
    \/ /\ Last(p, "create_pending")
       /\ confirm_appointment(p)
       /\ req'[p].id = req[p].id
       /\ req'[p].pc = "load"
       /\ req'[p].data.appointment_date > now
    \/ /\ Last(p, "confirm")
       /\ cancel_appointment(p)
       /\ req'[p].id = req[p].id
    \/ /\ Last(p, "cancel")
       /\ cancel_appointment(p)
       /\ req'[p].id = req[p].id

\* the steps of those calls with the store and the broker working
ScenarioStep(p) ==
    \/ get_appointment_by_id(p)
    \/ create(p)
    \/ update(p)
    \/ send_email(p)

NextScenario ==
    Tick \/ ScenarioCall(SeqProc) \/ ScenarioStep(SeqProc) \/ email_task

SpecScenario == Init /\ [][NextScenario]_vars

(************************* lookup by email *********************************)
\* the rows of SELECT ... WHERE email = :email AND status = 'PENDING'
pending_with_email(rows, email) ==
    {i \in DOMAIN rows :
        rows[i].email = email /\ rows[i].status = PENDING}

\* a caller hands an email to AppointmentRepository.get_by_email
get_by_email_call(p) ==
    /\ Free(p)
    /\ \E email \in Emails :
          Begin(p, "get_by_email", 0, [email |-> email], NoAppt, "lookup")
    /\ UNCHANGED <<store, nextId, now, queue, worker>>

\* AppointmentRepository.get_by_email: execute, then scalar_one_or_none,
\* which gives None for no row, the row for one row, and raises
\* MultipleResultsFound for more; handle_exceptions turns that into
\* InternalServerError
get_by_email(p) ==
    LET r == req[p]
        found == pending_with_email(store, r.data.email)
    IN  /\ r.pc = "lookup"
        /\ req' = [req EXCEPT ![p] =
              IF Cardinality(found) > 1
              THEN [r EXCEPT !.pc = "done", !.result = handle_exceptions]
              ELSE [r EXCEPT !.pc = "done", !.result =
                       [kind |-> "ok",
                        value |-> IF found = {} THEN NoAppt
                                  ELSE store[CHOOSE i \in found : TRUE]]]]
        /\ UNCHANGED <<store, nextId, now, queue, worker>>

\* the service operations on a table that already holds a record, with
\* lookups by email between them
NextLookup ==
    \/ Next
    \/ get_by_email_call(SeqProc)
    \/ get_by_email(SeqProc)

SpecLookup == InitPair /\ [][NextLookup]_vars

(******************** overlapping transition requests **********************)
\* the table holds one record, a public request or a staff booking
InitConc ==
    /\ store \in {(1 :> r) : r \in
          LET data == [name |-> "Jane Doe", email |-> "jane@x.com",
                       contact |-> "+1-555-0100", notes |-> None]
          IN  {PendingAppointment(1, data, 0),
               ScheduledAppointment(
                   1, data @@ ("appointment_date" :> MaxTime + 1), 0)}}
    /\ nextId = 2
    /\ now = 0
    /\ req = [p \in Procs |-> IdleReq]
    /\ queue = <<>>
    /\ worker = "idle"

\* the four transitions with payloads that pass validation; two requests
\* differ in the date they confirm or in the reason they give, so that
\* what each of them wrote can be told apart
ConcCall(p) ==
    \/ /\ confirm_appointment(p)
       /\ req'[p].pc = "load"
       /\ req'[p].data.appointment_date > now
       /\ req'[p].data.notes = None
    \/ cancel_appointment(p)
    \/ reject_appointment(p)
    \/ /\ complete_appointment(p)
       /\ req'[p].data.notes = "all done"

\* the steps of those calls with the store and the broker working
ConcStep(p) ==
    \/ get_appointment_by_id(p)
    \/ update(p)
    \/ send_email(p)

\* every request runs in its own task and its own session: the steps of
\* the two slots interleave at the awaits
NextConc ==
    \/ \E p \in Procs : ConcCall(p)
    \/ \E p \in Procs : ConcStep(p)
    \/ email_task

SpecConc == InitConc /\ [][NextConc]_vars

(***************************************************************************)
(*                              Listing                                    *)
(***************************************************************************)
\* the largest limit get_all_appointments accepts
MaxLimit == 100

\* a date (calendar day d) compared with a timestamp column: 00:00 of d
Midnight(d) == d * DayLen

\* mutant: the upper bound of a range stops at 00:00 of its own day
Mut_next_day(d) == d

\* next_day = filters[...] + timedelta(days=1)
next_day(d) == d + 1

\* "k in filters and filters[k]" for the text filters and for the dates
Truthy(filters, k) == k \in DOMAIN filters /\ filters[k] # ""
Given(filters, k) == k \in DOMAIN filters

\* the characters of the text values of the rows and of the search terms
Chars(s) ==
    CASE s = "Jane Doe" -> <<"J", "a", "n", "e", " ", "D", "o", "e">>
      [] s = "jane@x.com" ->
            <<"j", "a", "n", "e", "@", "x", ".", "c", "o", "m">>
      [] s = "bob@x.com" -> <<"b", "o", "b", "@", "x", ".", "c", "o", "m">>
      [] s = "+1-555-0100" ->
            <<"+", "1", "-", "5", "5", "5", "-", "0", "1", "0", "0">>
      [] s = "DOE" -> <<"D", "O", "E">>
      [] s = "555" -> <<"5", "5", "5">>
      [] s = "b_b" -> <<"b", "_", "b">>
      [] s = "_" -> <<"_">>

\* ILIKE compares without regard to case
Lower(c) ==
    CASE c = "J" -> "j"
      [] c = "D" -> "d"
      [] c = "O" -> "o"
      [] c = "E" -> "e"
      [] OTHER -> c
LowerSeq(cs) == [i \in DOMAIN cs |-> Lower(cs[i])]

\* column LIKE pattern in PostgreSQL: % stands for any run of characters,
\* _ for any one character, a backslash takes the next character as it is
RECURSIVE Like(_, _)
Like(text, pattern) ==
    IF pattern = <<>> THEN text = <<>>
    ELSE IF Head(pattern) = "%"
    THEN Like(text, Tail(pattern))
            \/ (text # <<>> /\ Like(Tail(text), pattern))
    ELSE IF Head(pattern) = "\\"
    THEN /\ Len(pattern) >= 2
         /\ text # <<>>
         /\ Head(text) = pattern[2]
         /\ Like(Tail(text), Tail(Tail(pattern)))
    ELSE /\ text # <<>>
         /\ Head(pattern) = "_" \/ Head(pattern) = Head(text)
         /\ Like(Tail(text), Tail(pattern))

\* column.ilike(f"%{term}%")
ilike(value, term) ==
    Like(LowerSeq(Chars(value)),
         LowerSeq(<<"%">> \o Chars(term) \o <<"%">>))

\* _apply_filters: the conjunction of the conditions of the given filters;
\* a comparison with a NULL appointment_date is not true
conditions(row, filters) ==
    /\ Truthy(filters, "status") => row.status = filters.status
    /\ Given(filters, "start_date") =>
          /\ row.appointment_date # NoDate
          /\ row.appointment_date >= Midnight(filters.start_date)
    /\ Given(filters, "end_date") =>
          /\ row.appointment_date # NoDate
          /\ row.appointment_date < Midnight(next_day(filters.end_date))
    /\ Given(filters, "created_after") =>
          row.created_at >= Midnight(filters.created_after)
    /\ Given(filters, "created_before") =>
          row.created_at < Midnight(next_day(filters.created_before))
    /\ Given(filters, "updated_after") =>
          row.updated_at >= Midnight(filters.updated_after)
    /\ Given(filters, "updated_before") =>
          row.updated_at < Midnight(next_day(filters.updated_before))
    /\ Truthy(filters, "name") => row.name = filters.name
    /\ Truthy(filters, "contact") => row.contact = filters.contact
    /\ Truthy(filters, "email") => row.email = filters.email
    /\ Truthy(filters, "search") =>
          \/ ilike(row.name, filters.search)
          \/ ilike(row.contact, filters.search)
          \/ ilike(row.email, filters.search)

\* the ids of the rows select(Appointment).where(and_(*conditions)) gives
apply_filters(rows, filters) ==
    {i \in DOMAIN rows : conditions(rows[i], filters)}

\* mutant: the count is taken over the unfiltered table
Mut_count_query(rows, filters) == Cardinality(DOMAIN rows)

\* select(func.count()).select_from(query.subquery())
count_query(rows, filters) == Cardinality(apply_filters(rows, filters))

\* getattr(self.model, order_by, self.model.created_at)
Columns ==
    {"id", "name", "email", "contact", "status", "notes",
     "cancellation_reason", "appointment_date", "created_at", "updated_at"}
order_column(order_by) ==
    IF order_by \in Columns THEN order_by ELSE "created_at"

\* names getattr finds on the Appointment class that are no columns: what
\* it returns for them has no desc() and no asc()
ClassAttributes == {"__tablename__"}

\* _apply_ordering: the orders in which the database may return the rows
\* `ids` sorted by `column`; rows with equal keys come in any order
apply_ordering(rows, ids, column, order_desc) ==
    {s \in [1..Cardinality(ids) -> ids] :
        /\ \A i, j \in DOMAIN s : i # j => s[i] # s[j]
        /\ \A i, j \in DOMAIN s : i < j =>
              IF order_desc
              THEN rows[s[i]][column] >= rows[s[j]][column]
              ELSE rows[s[i]][column] <= rows[s[j]][column]}

\* query.offset(skip).limit(limit) over the ordered ids s
paginated(rows, s, skip, limit) ==
    LET rest == IF Len(s) > skip THEN Len(s) - skip ELSE 0
        n == IF rest < limit THEN rest ELSE limit
    IN  [k \in 1..n |-> rows[s[skip + k]]]

\* mutants of the input validation and of the pagination info
MutLimitRefused(limit) == limit <= 0 \/ limit > MaxLimit + 1
Mut_total_pages(total, limit) == total \div limit

\* the two input checks of get_all_appointments
SkipRefused(skip) == skip < 0
LimitRefused(limit) == limit <= 0 \/ limit > MaxLimit

\* page = (skip // limit) + 1; total_pages = (total + limit - 1) // limit
page_number(skip, limit) == (skip \div limit) + 1
total_pages(total, limit) == (total + limit - 1) \div limit

\* AppointmentResponse built from a row runs the validators it inherits:
\* clean_strings raises on notes that are empty once stripped
ResponseRefused(row) == row.notes = ""

\* AppointmentSearchParams.validate_date_range
validate_date_range(filters) ==
    IF Given(filters, "created_after") /\ Given(filters, "created_before")
          /\ filters.created_after > filters.created_before
    THEN "created_after must be before created_before"
    ELSE IF Given(filters, "updated_after") /\ Given(filters, "updated_before")
          /\ filters.updated_after > filters.updated_before
    THEN "updated_after must be before updated_before"
    ELSE None

\* the inputs of the list calls
Skips == {-1, 0, 1, MaxRows}
Limits == {0, 1, 2, MaxLimit, MaxLimit + 1}
OrderFields ==
    {"created_at", "updated_at", "no_such_field"} \cup ClassAttributes
FilterSets ==
    {<<>>,
     ("status" :> PENDING),
     ("status" :> UPCOMING) @@ ("email" :> "bob@x.com"),
     ("email" :> "jane@x.com") @@ ("created_before" :> 0),
     ("created_after" :> 1),
     ("start_date" :> 0) @@ ("end_date" :> 1),
     ("updated_after" :> 1) @@ ("updated_before" :> 1),
     ("name" :> "Jane Doe") @@ ("contact" :> "+1-555-0100")
         @@ ("end_date" :> 0),
     ("start_date" :> 1) @@ ("end_date" :> 0),
     ("created_after" :> 1) @@ ("created_before" :> 0),
     ("updated_after" :> 1) @@ ("updated_before" :> 0),
     ("search" :> "DOE"),
     ("search" :> "555") @@ ("status" :> PENDING),
     ("search" :> "b_b"),
     ("search" :> "_") @@ ("email" :> "jane@x.com")}

\* the search parameters are validated, then
\* AppointmentService.get_all_appointments runs up to its first await: the
\* two input checks
get_all_appointments(p) ==
    /\ Free(p)
    /\ \E skip \in Skips, limit \in Limits, filters \in FilterSets,
          order_by \in OrderFields, order_desc \in BOOLEAN :
          LET call == [IdleReq EXCEPT
                          !.op = "list",
                          !.data = [skip |-> skip, limit |-> limit,
                                    filters |-> filters,
                                    order_by |-> order_by,
                                    order_desc |-> order_desc]]
          IN  req' = [req EXCEPT ![p] =
                  IF validate_date_range(filters) # None
                  THEN [call EXCEPT !.pc = "done", !.result =
                           [kind |-> "ValidationError",
                            detail |-> validate_date_range(filters)]]
                  ELSE IF SkipRefused(skip)
                  THEN [call EXCEPT !.pc = "done", !.result =
                           [kind |-> "ValidationError",
                            detail |-> "Skip parameter must be non-negative"]]
                  ELSE IF LimitRefused(limit)
                  THEN [call EXCEPT !.pc = "done", !.result =
                           [kind |-> "ValidationError",
                            detail |-> "Limit must be between 1 and 100"]]
                  ELSE [call EXCEPT !.pc = "count"]]
    /\ UNCHANGED <<store, nextId, now, queue, worker>>

\* AppointmentRepository.get_all, first query: the count
get_all_count(p) ==
    LET r == req[p]
    IN  /\ r.pc = "count"
        /\ req' = [req EXCEPT ![p] =
              [r EXCEPT !.pc = "page",
                        !.data = ("total" :> count_query(store, r.data.filters))
                                     @@ r.data]]
        /\ UNCHANGED <<store, nextId, now, queue, worker>>

\* AppointmentRepository.get_all, second query: the page; then the
\* AppointmentListResponse is built from the rows and the pagination info
get_all_page(p) ==
    LET r == req[p]
        d == r.data
    IN  /\ r.pc = "page"
        /\ \E s \in apply_ordering(store, apply_filters(store, d.filters),
                                    order_column(d.order_by), d.order_desc) :
              LET items == paginated(store, s, d.skip, d.limit)
              IN  req' = [req EXCEPT ![p] =
                      IF d.order_by \in ClassAttributes
                      THEN [r EXCEPT !.pc = "done",
                                     !.result = handle_exceptions]
                      ELSE IF \E k \in DOMAIN items : ResponseRefused(items[k])
                      THEN [r EXCEPT !.pc = "done", !.result =
                               [kind |-> "ValidationError",
                                detail |-> "Field cannot be empty or whitespace"]]
                      ELSE [r EXCEPT !.pc = "done", !.result =
                               [kind |-> "ok",
                                value |-> [items |-> items,
                                           total |-> d.total,
                                           page |-> page_number(d.skip,
                                                                d.limit),
                                           pages |-> total_pages(d.total,
                                                                 d.limit),
                                           size |-> d.limit]]]]
        /\ UNCHANGED <<store, nextId, now, queue, worker>>

\* the rows a table may hold when it is listed: a public request, a staff
\* booking made at the last instant of the first day for the last instant
\* of the second, that booking
\* cancelled on the next day, and a request of the second day confirmed
\* with blank notes
ListRows(id) ==
    LET jane == [name |-> "Jane Doe", email |-> "jane@x.com",
                 contact |-> "+1-555-0100", notes |-> None]
        bob == [jane EXCEPT !.email = "bob@x.com", !.notes = "first visit"]
        booked == ScheduledAppointment(
                      id, bob @@ ("appointment_date" :> 2 * DayLen - 1),
                      DayLen - 1)
        asked == PendingAppointment(id, jane, DayLen)
    IN  {PendingAppointment(id, jane, 0),
         booked,
         Committed(booked, booked,
                   SetAttrs(booked, UpdateDict("cancel",
                       [cancellation_reason |-> "No capacity"])),
                   DayLen),
         Committed(asked, asked,
                   SetAttrs(asked, UpdateDict("confirm",
                       [appointment_date |-> 2 * DayLen, notes |-> ""])),
                   DayLen + 1)}

ListStores ==
    UNION {{t \in [1..n -> UNION {ListRows(i) : i \in 1..n}] :
               \A i \in 1..n : t[i].id = i} : n \in 0..MaxRows}

InitList ==
    /\ store \in ListStores
    /\ nextId = Cardinality(DOMAIN store) + 1
    /\ now = 2 * DayLen
    /\ req = [p \in Procs |-> IdleReq]
    /\ queue = <<>>
    /\ worker = "idle"

\* a list call writes nothing, so a second call of a behaviour would only
\* repeat what a first call of another behaviour does: one call is run
NextList ==
    \/ req[SeqProc].pc = "idle" /\ get_all_appointments(SeqProc)
    \/ get_all_count(SeqProc)
    \/ get_all_page(SeqProc)

SpecList == InitList /\ [][NextList]_vars

(***************************************************************************)
(*                         Properties                                      *)
(***************************************************************************)
\* the status changes of the lifecycle table, each with its operation
LegalChange ==
    {<<PENDING, UPCOMING, "confirm">>, <<PENDING, REJECTED, "reject">>,
     <<UPCOMING, CANCELLED, "cancel">>, <<UPCOMING, COMPLETED, "complete">>}

\* C1: under non-overlapping service operations a stored appointment's
\* status changes only pending->upcoming (by confirm), pending->rejected
\* (by reject), upcoming->cancelled (by cancel) or upcoming->completed (by
\* complete); so a completed, cancelled or rejected record keeps its status
\* and pending never becomes completed or cancelled in one step.
C1_StatusChanges ==
    [][\A i \in DOMAIN store \cap DOMAIN store' :
          store'[i].status # store[i].status =>
              \E p \in Procs :
                  /\ req[p].pc = "update"
                  /\ req[p].id = i
                  /\ <<store[i].status, store'[i].status, req[p].op>>
                         \in LegalChange]_vars

\* a reschedule has run to its end on a completed record, which is still
\* completed
C1_Witness ==
    /\ req[SeqProc].op = "reschedule"
    /\ req[SeqProc].pc = "done"
    /\ req[SeqProc].result.kind = "ok"
    /\ 1 \in DOMAIN store
    /\ store[1].status = COMPLETED

\* What every call of transition `op` does around its status check, when the
\* statuses it accepts are `from`: loading an existing record either passes
\* (status in from) or ends the call with BadRequest naming the status; no
\* step of the call but its update writes the store; the update is reached
\* only with an accepted status and is followed by the hand-over, unless
\* the store fails and nothing is written; the call returns ok only after
\* its update.
Legality(op, from) ==
    \A p \in Procs :
        LET r == req[p]
            r2 == req'[p]
        IN  /\ (r.op = op /\ r.pc = "load" /\ r2 # r
                    /\ r.id \in DOMAIN store) =>
                  IF store[r.id].status \in from
                  THEN r2.pc = "update"
                  ELSE /\ r2.pc = "done"
                       /\ r2.result = [kind |-> "BadRequest",
                                       status |-> store[r.id].status]
            /\ (r2.op = op /\ r2 # r /\ r.pc # "update") => store' = store
            /\ (r.op = op /\ r.pc = "update") =>
                  /\ r.id \in DOMAIN store
                  /\ store[r.id].status \in from
                  /\ r2 # r =>
                        \/ r2.pc = "dispatch"
                        \/ /\ r2.result.kind = "InternalServerError"
                           /\ store' = store
            /\ (r2.op = op /\ r2 # r /\ r2.result.kind = "ok") =>
                  r.op = op /\ r.pc = "dispatch"

\* the row of the call in slot p before and after its update step, and
\* that step when its commit goes through
Old(p) == store[req[p].id]
New(p) == store'[req[p].id]
Updating(p, op) ==
    req[p].op = op /\ req[p].pc = "update" /\ req'[p].pc = "dispatch"

\* C2: confirm on an existing appointment goes through only when the stored
\* status is pending, and then sets status upcoming and appointment_date to
\* the supplied date; from any other status it ends with BadRequest and
\* writes nothing (so a confirm after a successful confirm fails).
C2_ConfirmLegality ==
    [][/\ Legality("confirm", {PENDING})
       /\ \A p \in Procs : Updating(p, "confirm") =>
             /\ New(p).status = UPCOMING
             /\ New(p).appointment_date = req[p].data.appointment_date]_vars

\* a confirm has written its record and is about to notify
C2_Witness ==
    /\ req[SeqProc].op = "confirm"
    /\ req[SeqProc].pc = "dispatch"
    /\ store[req[SeqProc].id].status = UPCOMING
    /\ store[req[SeqProc].id].appointment_date
           = req[SeqProc].data.appointment_date

\* C3: cancel on an existing appointment goes through iff the stored status
\* is upcoming, and then sets status cancelled and cancellation_reason to
\* the supplied reason; from any other status it ends with BadRequest and
\* writes nothing.
C3_CancelLegality ==
    [][/\ Legality("cancel", {UPCOMING})
       /\ \A p \in Procs : Updating(p, "cancel") =>
             /\ New(p).status = CANCELLED
             /\ New(p).cancellation_reason
                    = req[p].data.cancellation_reason]_vars

\* a cancel has returned ok and the record carries its reason
C3_Witness ==
    /\ req[SeqProc].op = "cancel"
    /\ req[SeqProc].pc = "done"
    /\ req[SeqProc].result.kind = "ok"
    /\ store[req[SeqProc].id].status = CANCELLED
    /\ store[req[SeqProc].id].cancellation_reason \in Reasons

\* C4: reject on an existing appointment goes through iff the stored status
\* is pending, and then sets status rejected and cancellation_reason to the
\* supplied reason; from upcoming or a terminal status it ends with
\* BadRequest and writes nothing.
C4_RejectLegality ==
    [][/\ Legality("reject", {PENDING})
       /\ \A p \in Procs : Updating(p, "reject") =>
             /\ New(p).status = REJECTED
             /\ New(p).cancellation_reason
                    = req[p].data.cancellation_reason]_vars

\* a reject has been refused on an upcoming record
C4_Witness ==
    /\ req[SeqProc].op = "reject"
    /\ req[SeqProc].pc = "done"
    /\ req[SeqProc].result = [kind |-> "BadRequest", status |-> UPCOMING]
    /\ store[req[SeqProc].id].status = UPCOMING
    /\ store[req[SeqProc].id].cancellation_reason = None

\* C5: complete on an existing appointment goes through iff the stored
\* status is upcoming, and then sets status completed and overwrites notes
\* only when closing notes were supplied; from pending or a terminal status
\* it ends with BadRequest and writes nothing.
C5_CompleteLegality ==
    [][/\ Legality("complete", {UPCOMING})
       /\ \A p \in Procs : Updating(p, "complete") =>
             /\ New(p).status = COMPLETED
             /\ New(p).notes = IF req[p].data.notes = None
                               THEN Old(p).notes
                               ELSE req[p].data.notes]_vars

\* a complete without closing notes has left the record's notes in place
C5_Witness ==
    /\ req[SeqProc].op = "complete"
    /\ req[SeqProc].pc = "dispatch"
    /\ req[SeqProc].data.notes = None
    /\ store[req[SeqProc].id].status = COMPLETED
    /\ store[req[SeqProc].id].notes \in Notes

\* C6: reschedule on an existing appointment is accepted in every status; it
\* overwrites appointment_date with the supplied date and leaves status as
\* it was; a reschedule that returns has handed over exactly one reschedule
\* notification, whose old date is the appointment_date stored just before
\* the update and whose new date is the supplied one.
C6_RescheduleAnyStatus ==
    [][/\ Legality("reschedule", AppointmentStatus)
       /\ \A p \in Procs :
             /\ Updating(p, "reschedule") =>
                   /\ New(p).appointment_date = req[p].data.appointment_date
                   /\ New(p).status = Old(p).status
                   /\ req[p].old_date = Old(p).appointment_date
             /\ (req[p].op = "reschedule" /\ req[p].pc = "dispatch"
                 /\ req'[p].result.kind = "ok") =>
                   /\ Len(req'[p].sent) = 1
                   /\ req'[p].sent[1].task = "reschedule"
                   /\ req'[p].sent[1].old_date_str = Str(req[p].old_date)
                   /\ req'[p].sent[1].new_date_str
                          = Str(req[p].data.appointment_date)]_vars

\* a reschedule of a cancelled record has returned, its notification
\* carrying two different dates
C6_Witness ==
    /\ req[SeqProc].op = "reschedule"
    /\ req[SeqProc].pc = "done"
    /\ req[SeqProc].result.kind = "ok"
    /\ store[req[SeqProc].id].status = CANCELLED
    /\ req[SeqProc].sent[1].old_date_str # "None"
    /\ req[SeqProc].sent[1].old_date_str # req[SeqProc].sent[1].new_date_str

\* C7: under non-overlapping service operations every stored appointment has
\* a non-null cancellation_reason if and only if its status is cancelled or
\* rejected.
C7_ReasonIffCancelledOrRejected ==
    \A i \in DOMAIN store :
        (store[i].cancellation_reason # None)
            <=> (store[i].status \in {CANCELLED, REJECTED})

\* a rejected record carrying a reason
C7_Witness ==
    \E i \in DOMAIN store :
        store[i].status = REJECTED /\ store[i].cancellation_reason \in Reasons

\* C8: rows enter the store only through create_pending, which stores status
\* pending with null appointment_date and null cancellation_reason, and
\* through schedule, which stores status upcoming with the supplied
\* non-null appointment_date; no row starts completed, cancelled or
\* rejected.
C8_TwoCreations ==
    [][\A i \in DOMAIN store' \ DOMAIN store :
          \E p \in Procs :
              /\ req[p].pc = "create"
              /\ req[p].id = i
              /\ \/ /\ req[p].op = "create_pending"
                    /\ store'[i].status = PENDING
                    /\ store'[i].appointment_date = NoDate
                    /\ store'[i].cancellation_reason = None
                 \/ /\ req[p].op = "schedule"
                    /\ store'[i].status = UPCOMING
                    /\ store'[i].appointment_date
                           = req[p].data.appointment_date
                    /\ store'[i].appointment_date # NoDate]_vars

\* a staff booking has been stored as upcoming with its date
C8_Witness ==
    /\ req[SeqProc].op = "schedule"
    /\ req[SeqProc].pc = "dispatch"
    /\ store[req[SeqProc].id].status = UPCOMING
    /\ store[req[SeqProc].id].appointment_date \in Dates

\* the notification kind of each operation
TaskOf(op) ==
    CASE op = "create_pending" -> "acknowledgement"
      [] op = "schedule" -> "booking"
      [] op = "confirm" -> "confirmation"
      [] op = "reschedule" -> "reschedule"
      [] op = "cancel" -> "cancellation"
      [] op = "reject" -> "rejection"
      [] op = "complete" -> "followup"
      [] OTHER -> "none"

\* the write of the call r is in the store
WriteCommitted(r) ==
    /\ r.id \in DOMAIN store
    /\ r.op \notin {"create_pending", "schedule"} =>
          \A f \in DOMAIN UpdateDict(r.op, r.data) :
              store[r.id][f] = UpdateDict(r.op, r.data)[f]

\* C9: a create_pending, schedule, confirm, reschedule, cancel, reject or
\* complete that returns ok has handed over exactly one notification, of
\* the kind of the operation and addressed to the record's email; the
\* hand-over happens when the write is already committed, never before; a
\* call ending with ValidationError, NotFound or BadRequest hands over none.
C9_OneNotificationAfterCommit ==
    [][\A p \in Procs :
          LET r == req[p]
              r2 == req'[p]
          IN  /\ (r2.sent # r.sent /\ r2.sent # <<>>) =>
                    /\ r.pc = "dispatch"
                    /\ r.sent = <<>>
                    /\ WriteCommitted(r)
              /\ (r2 # r /\ r2.result.kind = "ok"
                      /\ r2.op \notin {"get", "delete"}) =>
                    /\ Len(r2.sent) = 1
                    /\ r2.sent[1].task = TaskOf(r2.op)
                    /\ r2.sent[1].email_to = store[r2.id].email
              /\ r2.result.kind \in {"ValidationError", "NotFound",
                                     "BadRequest"} => r2.sent = <<>>
              /\ r2.pc # "done" => r2.sent = <<>>]_vars

\* a complete has returned with its follow-up notification handed over
C9_Witness ==
    /\ req[SeqProc].op = "complete"
    /\ req[SeqProc].pc = "done"
    /\ req[SeqProc].result.kind = "ok"
    /\ req[SeqProc].sent
           = <<[task |-> "followup",
                email_to |-> store[req[SeqProc].id].email,
                name |-> store[req[SeqProc].id].name]>>

\* C10: a call whose write is committed and whose notification hand-over is
\* all that is left returns the successful result, whatever the hand-over
\* does.
C10_DispatchFailureNotPropagated ==
    [][\A p \in Procs :
          (/\ req[p].op \in {"confirm", "reschedule", "cancel", "reject",
                              "complete"}
           /\ req[p].pc = "dispatch"
           /\ req'[p].pc = "done") =>
              req'[p].result.kind = "ok"]_vars

\* C11: a notification hand-over that raises, a task whose email is not
\* delivered and a task that is delivered all leave the appointment table
\* as it is; the row written by the call stays as committed.
C11_NoRollbackOnDispatchFailure ==
    [][/\ (queue' # queue \/ worker' # worker) => store' = store
       /\ \A p \in Procs :
             (req[p].pc = "dispatch" /\ req'[p] # req[p]) =>
                 /\ store' = store
                 /\ req[p].id \in DOMAIN store
                 /\ store[req[p].id] = req[p].appt
                 /\ WriteCommitted(req[p])]_vars

\* a cancel has returned, its cancellation task has run in the worker and
\* failed to send the email, and the record is still cancelled
C11_Witness ==
    /\ req[SeqProc].op = "cancel"
    /\ req[SeqProc].result.kind = "ok"
    /\ queue = <<>>
    /\ worker = "failed"
    /\ store[req[SeqProc].id].status = CANCELLED
    /\ store[req[SeqProc].id].cancellation_reason \in Reasons

\* the operations that change an existing record
Transitions == {"confirm", "reschedule", "cancel", "reject", "complete"}

\* C12: a transition whose id has no record ends with NotFound at its read;
\* a call ends with NotFound or BadRequest only at that read, with the
\* table, the broker queue and its own list of notifications untouched;
\* a call reads once, and only a call that passed the read reaches a write.
C12_FailedValidationHasNoEffect ==
    [][\A p \in Procs :
          LET r == req[p]
              r2 == req'[p]
          IN  /\ (r.op \in Transitions /\ r.pc = "load" /\ r2 # r
                      /\ r.id \notin DOMAIN store) =>
                    /\ r2.pc = "done"
                    /\ r2.result = [kind |-> "NotFound"]
              /\ (r2 # r /\ r2.result.kind \in {"NotFound", "BadRequest"}) =>
                    /\ r.pc = "load"
                    /\ store' = store
                    /\ queue' = queue
                    /\ r2.sent = <<>>
              /\ (r2 # r /\ r2.pc = "load") => r.pc \in {"idle", "done"}
              /\ (r2 # r /\ r2.pc \in {"update", "delete"}) => r.pc = "load"
              /\ (r2 # r /\ r.pc = "load") => store' = store]_vars

\* a reschedule of an id that has no record has ended with NotFound
C12_Witness ==
    /\ req[SeqProc].op = "reschedule"
    /\ req[SeqProc].pc = "done"
    /\ req[SeqProc].result.kind = "NotFound"
    /\ req[SeqProc].id \notin DOMAIN store
    /\ req[SeqProc].sent = <<>>
    /\ queue = <<>>

\* C13: a delete whose id has a record goes on to the DELETE whatever the
\* status of the record, the DELETE removes that row and no other, returns
\* ok and hands over no notification; a delete, a get or a transition
\* whose id has no record ends with NotFound and changes nothing; an id
\* enters the table only through a create that drew it fresh, so a deleted
\* id stays absent.
C13_DeleteRemovesRecord ==
    [][/\ \A i \in DOMAIN store : i < nextId
       /\ \A i \in DOMAIN store' \ DOMAIN store :
             \E p \in Procs : req[p].pc = "create" /\ req[p].id = i
       /\ \A p \in Procs :
             LET r == req[p]
                 r2 == req'[p]
             IN  /\ (r.op = "delete" /\ r.pc = "load" /\ r2 # r) =>
                       /\ store' = store
                       /\ IF r.id \in DOMAIN store
                          THEN r2.pc = "delete"
                          ELSE /\ r2.pc = "done"
                               /\ r2.result = [kind |-> "NotFound"]
                 /\ (r.pc = "delete" /\ r2 # r) =>
                       /\ r.id \in DOMAIN store
                       /\ DOMAIN store' = DOMAIN store \ {r.id}
                       /\ \A i \in DOMAIN store' : store'[i] = store[i]
                       /\ r2.pc = "done"
                       /\ r2.result.kind = "ok"
                       /\ r2.sent = <<>>
                       /\ queue' = queue
                 /\ (r.op \in Transitions \cup {"get"} /\ r.pc = "load"
                         /\ r2 # r /\ r.id \notin DOMAIN store) =>
                       /\ r2.pc = "done"
                       /\ r2.result = [kind |-> "NotFound"]
                 /\ (r2 # r /\ r2.pc = "create") =>
                       /\ r2.id = nextId
                       /\ nextId' > nextId]_vars

\* a delete of a stored record has returned, the record is gone and the
\* other record of the table is as it was
C13_Witness ==
    /\ req[SeqProc].op = "delete"
    /\ req[SeqProc].pc = "done"
    /\ req[SeqProc].result.kind = "ok"
    /\ req[SeqProc].id < nextId
    /\ req[SeqProc].id \notin DOMAIN store
    /\ store[OtherId] \in OtherRecords

\* C14: a schedule, confirm or reschedule that gets past its schema carries
\* an appointment_date strictly later than the instant of the validation;
\* a date earlier than or equal to that instant ends with ValidationError.
C14_DateStrictlyLater ==
    [][\A p \in Procs :
          LET r == req[p]
              r2 == req'[p]
          IN  (/\ r.pc \in {"idle", "done"}
               /\ r2 # r
               /\ r2.op \in {"schedule", "confirm", "reschedule"}
               /\ r2.pc # "done") =>
                  r2.data.appointment_date > now]_vars

\* C15: whatever a transition payload carries, no step changes the
\* created_at of a stored record; updated_at changes only in the commit
\* of a repository update, and then to the clock value of that commit; a
\* new record carries the instant its creation method read from the clock
\* in both columns; updated_at is never earlier than created_at.
C15_TimestampsNotWritable ==
    [][/\ \A i \in DOMAIN store : store[i].updated_at >= store[i].created_at
       /\ \A i \in DOMAIN store \cap DOMAIN store' :
             /\ store'[i].created_at = store[i].created_at
             /\ store'[i].updated_at # store[i].updated_at =>
                   /\ store'[i].updated_at = now
                   /\ \E p \in Procs :
                         /\ req[p].pc = "update"
                         /\ req[p].id = i
                         /\ req'[p].pc = "dispatch"
       /\ \A i \in DOMAIN store' \ DOMAIN store :
             /\ store'[i].created_at <= now
             /\ store'[i].updated_at = store'[i].created_at]_vars

\* a record created at the first instant has been cancelled at a later one:
\* its updated_at is refreshed, its created_at is the creation instant
C15_Witness ==
    /\ req[SeqProc].op = "cancel"
    /\ req[SeqProc].result.kind = "ok"
    /\ store[req[SeqProc].id].created_at = 0
    /\ store[req[SeqProc].id].updated_at = now
    /\ now > 0

C17_Scenario ==
    [][LET r == req[SeqProc]
           r2 == req'[SeqProc]
           row == store'[r2.id]
       IN  /\ (r2.pc = "done" /\ r2.op = "create_pending") =>
                 /\ r2.result.kind = "ok"
                 /\ row.status = PENDING
                 /\ row.appointment_date = NoDate
                 /\ r2.sent = <<[task |-> "acknowledgement",
                                 email_to |-> row.email, name |-> row.name]>>
           /\ (r.op = "confirm" /\ r.pc = "update" /\ r2 # r) =>
                 /\ row.appointment_date = r.data.appointment_date
                 /\ row.appointment_date > store[r.id].created_at
           /\ (r2.pc = "done" /\ r2.op = "confirm") =>
                 /\ r2.result.kind = "ok"
                 /\ row.status = UPCOMING
                 /\ row.appointment_date # NoDate
                 /\ r2.sent = <<[task |-> "confirmation",
                                 email_to |-> row.email, name |-> row.name,
                                 date_str |-> Str(row.appointment_date)]>>
           /\ (r.op = "cancel" /\ r.pc = "update" /\ r2 # r) =>
                 /\ store[r.id].status = UPCOMING
                 /\ row.cancellation_reason = r.data.cancellation_reason
           /\ (r2.pc = "done" /\ r2.op = "cancel") =>
                 /\ row.status = CANCELLED
                 /\ row.cancellation_reason \in Reasons
                 /\ \/ /\ r2.result.kind = "ok"
                       /\ r2.sent = <<[task |-> "cancellation",
                                       email_to |-> row.email,
                                       name |-> row.name,
                                       reason |-> row.cancellation_reason]>>
                    \/ /\ r2.result = [kind |-> "BadRequest",
                                        status |-> CANCELLED]
                       /\ r2.sent = <<>>
           /\ (r2.op = "cancel" /\ r2 # r /\ r.pc \in {"done", "load"}
                   /\ store[r2.id].status = CANCELLED) =>
                 /\ store' = store
                 /\ queue' = queue
                 /\ r2.pc \in {"load", "done"}
                 /\ r2.pc = "done" =>
                       r2.result = [kind |-> "BadRequest",
                                    status |-> CANCELLED]]_vars

\* the second cancel of the scenario has been refused; the record is as the
\* first cancel left it
C17_Witness ==
    /\ req[SeqProc].op = "cancel"
    /\ req[SeqProc].pc = "done"
    /\ req[SeqProc].result = [kind |-> "BadRequest", status |-> CANCELLED]
    /\ req[SeqProc].sent = <<>>
    /\ store[req[SeqProc].id].status = CANCELLED
    /\ store[req[SeqProc].id].cancellation_reason \in Reasons
    /\ store[req[SeqProc].id].appointment_date \in Dates

\* the list call in slot p, once it has returned
Listed(p) == req[p].op = "list" /\ req[p].pc = "done"

\* C18: a list call with skip >= 0 and 1 <= limit <= 100 is not refused
\* for its skip or limit, and the response it returns has: page the
\* number of the limit-sized block skip falls in, pages the least number
\* of limit-sized blocks that hold total rows, size the limit, and at
\* most limit items.
C18_PaginationInfo ==
    \A p \in Procs :
        LET d == req[p].data
            res == req[p].result
            v == res.value
        IN  (Listed(p) /\ d.skip >= 0 /\ d.limit >= 1 /\ d.limit <= 100) =>
                /\ res.kind = "ValidationError" =>
                      res.detail \notin {"Skip parameter must be non-negative",
                                         "Limit must be between 1 and 100"}
                /\ res.kind = "ok" =>
                      /\ v.page >= 1
                      /\ (v.page - 1) * d.limit <= d.skip
                      /\ d.skip < v.page * d.limit
                      /\ v.pages >= 0
                      /\ v.pages * d.limit >= v.total
                      /\ (v.pages - 1) * d.limit < v.total
                      /\ v.size = d.limit
                      /\ Len(v.items) <= d.limit

\* a list of a table of MaxRows rows with limit 2 and skip MaxRows has
\* returned: several pages, the page asked for is not the first
C18_Witness ==
    /\ Listed(SeqProc)
    /\ req[SeqProc].result.kind = "ok"
    /\ req[SeqProc].data.limit = 2
    /\ req[SeqProc].data.skip = MaxRows
    /\ req[SeqProc].result.value.total = MaxRows
    /\ req[SeqProc].result.value.pages > 1
    /\ req[SeqProc].result.value.page > 1

\* C19: a list call with skip < 0, limit < 1 or limit > 100 has returned
\* ValidationError for that input (or for a range of its search parameters,
\* which are validated first) as soon as it exists: it is never at the
\* count query nor at the page query, and no total was ever read for it.
C19_BadPaginationRefused ==
    \A p \in Procs :
        LET r == req[p]
        IN  (r.op = "list"
                /\ (r.data.skip < 0 \/ r.data.limit < 1 \/ r.data.limit > 100))
            =>  /\ r.pc = "done"
                /\ r.result.kind = "ValidationError"
                /\ r.result.detail \in {"Skip parameter must be non-negative",
                                        "Limit must be between 1 and 100",
                                        validate_date_range(r.data.filters)}
                /\ "total" \notin DOMAIN r.data

\* a list with limit 101 of a table that holds rows has been refused
C19_Witness ==
    /\ Listed(SeqProc)
    /\ req[SeqProc].data.limit = 101
    /\ req[SeqProc].data.skip >= 0
    /\ req[SeqProc].result.kind = "ValidationError"
    /\ req[SeqProc].result.detail = "Limit must be between 1 and 100"
    /\ store # <<>>

\* the calendar day of an instant
DayOf(t) == t \div DayLen

\* the term occurs in the value as a run of characters, whatever the case
Contains(value, term) ==
    LET v == LowerSeq(Chars(value))
        t == LowerSeq(Chars(term))
    IN  \E i \in 1..(Len(v) - Len(t) + 1) : SubSeq(v, i, i + Len(t) - 1) = t

\* a row satisfies a filter: the exact-match filters name the row's value;
\* a range bound names a day the row's timestamp is not before (lower
\* bound) or not after (upper bound); a row without a date is in no range;
\* a search term occurs in the name, the contact or the email
SatisfiesFilter(row, k, value) ==
    CASE k \in {"status", "name", "contact", "email"} -> row[k] = value
      [] k = "search" ->
            \/ Contains(row.name, value)
            \/ Contains(row.contact, value)
            \/ Contains(row.email, value)
      [] k = "start_date" ->
            /\ row.appointment_date # NoDate
            /\ DayOf(row.appointment_date) >= value
      [] k = "end_date" ->
            /\ row.appointment_date # NoDate
            /\ DayOf(row.appointment_date) <= value
      [] k = "created_after" -> DayOf(row.created_at) >= value
      [] k = "created_before" -> DayOf(row.created_at) <= value
      [] k = "updated_after" -> DayOf(row.updated_at) >= value
      [] k = "updated_before" -> DayOf(row.updated_at) <= value

Matching(filters) ==
    {i \in DOMAIN store :
        \A k \in DOMAIN filters : SatisfiesFilter(store[i], k, filters[k])}

\* C20: the total a list call has read, and the total of the response it
\* returns, is the number of stored rows that satisfy every filter of the
\* call, whatever its skip, limit, order_by and order_desc.
C20_TotalCountsFiltered ==
    \A p \in Procs :
        LET r == req[p]
        IN  /\ (r.op = "list" /\ "total" \in DOMAIN r.data) =>
                  r.data.total = Cardinality(Matching(r.data.filters))
            /\ (Listed(p) /\ r.result.kind = "ok") =>
                  r.result.value.total
                      = Cardinality(Matching(r.data.filters))

\* a filtered list whose skip is beyond the table has returned no item
\* and a total that counts some but not all of the rows
C20_Witness ==
    /\ Listed(SeqProc)
    /\ req[SeqProc].result.kind = "ok"
    /\ req[SeqProc].data.filters # <<>>
    /\ req[SeqProc].data.skip = MaxRows
    /\ req[SeqProc].result.value.items = <<>>
    /\ req[SeqProc].result.value.total > 0
    /\ req[SeqProc].result.value.total < Cardinality(DOMAIN store)

\* the first filter set is the second with filters added
Extends(g, f) ==
    /\ DOMAIN f \subseteq DOMAIN g
    /\ \A k \in DOMAIN f : g[k] = f[k]

\* a list call that returned its whole filtered set on one page
ListedWhole(p) ==
    /\ Listed(p)
    /\ req[p].result.kind = "ok"
    /\ req[p].data.skip = 0
    /\ req[p].data.limit >= Cardinality(DOMAIN store)

ItemIds(p) ==
    LET items == req[p].result.value.items
    IN  {items[k].id : k \in DOMAIN items}

\* C21: the rows a list call returns on a page that holds its whole
\* filtered set are exactly the stored rows that satisfy every filter of
\* the call (status, name, contact, email, the three ranges, search), and
\* the filtered set of a filter set with filters added is within the
\* filtered set without them.
C21_FilteredSet ==
    /\ \A p \in Procs :
          ListedWhole(p) => ItemIds(p) = Matching(req[p].data.filters)
    /\ \A p \in Procs : \A f \in FilterSets :
          (ListedWhole(p) /\ Extends(req[p].data.filters, f)) =>
              ItemIds(p) \subseteq apply_filters(store, f)

\* the range filters and the column each of them bounds
RangeKeys ==
    {"start_date", "end_date", "created_after", "created_before",
     "updated_after", "updated_before"}
LowerBounds ==
    ("start_date" :> "appointment_date") @@ ("created_after" :> "created_at")
        @@ ("updated_after" :> "updated_at")
UpperBounds ==
    ("end_date" :> "appointment_date") @@ ("created_before" :> "created_at")
        @@ ("updated_before" :> "updated_at")

\* 23:59:59 of day d: the instant before 00:00:00 of the following day
LastInstant(d) == Midnight(d + 1) - 1

\* the row's timestamps are within every range of the filters, the first
\* instant of a lower bound's day and the last of an upper bound's included
InRanges(row, filters) ==
    /\ \A k \in DOMAIN filters \cap DOMAIN LowerBounds :
          /\ row[LowerBounds[k]] # NoDate
          /\ row[LowerBounds[k]] >= Midnight(filters[k])
    /\ \A k \in DOMAIN filters \cap DOMAIN UpperBounds :
          /\ row[UpperBounds[k]] # NoDate
          /\ row[UpperBounds[k]] <= LastInstant(filters[k])

Inverted(filters) ==
    \E lo \in DOMAIN filters \cap DOMAIN LowerBounds,
       hi \in DOMAIN filters \cap DOMAIN UpperBounds :
        /\ LowerBounds[lo] = UpperBounds[hi]
        /\ filters[lo] > filters[hi]

\* C23: a list call with start_date > end_date, created_after >
\* created_before or updated_after > updated_before has returned a
\* ValidationError as soon as it exists: it is never at the count query nor
\* at the page query, and no total was ever read for it.
C23_InvertedRangeRefused ==
    \A p \in Procs :
        LET r == req[p]
        IN  (r.op = "list" /\ Inverted(r.data.filters)) =>
                /\ r.pc = "done"
                /\ r.result.kind = "ValidationError"
                /\ "total" \notin DOMAIN r.data

\* the sort key of a list call: order_by when it names a field of the
\* records, created_at otherwise
SortKey(order_by) == IF order_by \in Columns THEN order_by ELSE "created_at"

\* s lists the ids once each, in the order of the key
SortedBy(s, ids, key, order_desc) ==
    /\ Len(s) = Cardinality(ids)
    /\ {s[k] : k \in DOMAIN s} = ids
    /\ \A i, j \in DOMAIN s : i < j =>
          IF order_desc
          THEN store[s[i]][key] >= store[s[j]][key]
          ELSE store[s[i]][key] <= store[s[j]][key]

\* C24: a list call with valid search parameters, skip >= 0 and
\* 1 <= limit <= 100 returns a response whose items are the records at
\* positions skip .. skip + limit - 1 of the filtered set sorted by
\* order_by, ascending or descending as asked; an order_by that names no
\* field sorts by created_at.
C24_PageOfSortedSet ==
    \A p \in Procs :
        LET r == req[p]
            d == r.data
            ids == Matching(d.filters)
        IN  (Listed(p) /\ d.skip >= 0 /\ d.limit >= 1 /\ d.limit <= 100
                /\ validate_date_range(d.filters) = None) =>
                /\ r.result.kind = "ok"
                /\ \E s \in [1..Cardinality(ids) -> ids] :
                      /\ SortedBy(s, ids, SortKey(d.order_by), d.order_desc)
                      /\ Len(r.result.value.items)
                             = Cardinality({k \in DOMAIN s :
                                   k > d.skip /\ k <= d.skip + d.limit})
                      /\ \A k \in DOMAIN r.result.value.items :
                            r.result.value.items[k] = store[s[d.skip + k]]

\* the rows in which the term occurs, whatever the case, in the name, the
\* contact or the email
Found(term) ==
    {i \in DOMAIN store :
        \/ Contains(store[i].name, term)
        \/ Contains(store[i].contact, term)
        \/ Contains(store[i].email, term)}

\* C25: for a list call with a search term, whatever its characters, the
\* rows counted and the rows returned on a page that holds the whole
\* filtered set are the rows that satisfy the other filters and hold the
\* term, compared without regard to case, as a substring of their name,
\* contact or email.
C25_SearchIsSubstring ==
    \A p \in Procs :
        LET r == req[p]
            f == r.data.filters
            others == [k \in DOMAIN f \ {"search"} |-> f[k]]
            expected == apply_filters(store, others) \cap Found(f.search)
        IN  (r.op = "list" /\ "search" \in DOMAIN f) =>
                /\ "total" \in DOMAIN r.data =>
                      r.data.total = Cardinality(expected)
                /\ ListedWhole(p) => ItemIds(p) = expected

\* slot p holds a confirm of record id that has passed the status check
\* and has written its row
Persisted(p, id) ==
    /\ req[p].op = "confirm"
    /\ req[p].id = id
    /\ \/ req[p].pc = "dispatch"
       \/ req[p].pc = "done" /\ req[p].result.kind = "ok"

\* C26: when requests overlap, a confirm that passed the status check of a
\* pending record persists its own date and goes on to dispatch its
\* confirmation even when another confirm of the same record has persisted
\* in between; so two confirms of one pending record can both pass the
\* check, both persist and both dispatch.
C26_BothConfirmsPersist ==
    [][\A p, q \in Procs :
          (/\ p # q
           /\ req[p].op = "confirm"
           /\ req[p].pc = "update"
           /\ Persisted(q, req[p].id)
           /\ req'[p] # req[p]) =>
              /\ req'[p].pc = "dispatch"
              /\ store'[req[p].id].status = UPCOMING
              /\ store'[req[p].id].appointment_date
                     = req[p].data.appointment_date]_vars

\* two confirms of the record have both returned it as upcoming and each
\* has dispatched a confirmation, for two different dates
C26_Witness ==
    /\ \A p \in Procs :
          /\ req[p].op = "confirm"
          /\ req[p].id = 1
          /\ req[p].pc = "done"
          /\ req[p].result.kind = "ok"
          /\ req[p].result.value.status = UPCOMING
          /\ Len(req[p].sent) = 1
    /\ req[1].result.value.appointment_date
           # req[2].result.value.appointment_date
    /\ store[1].status = UPCOMING

\* the statuses no transition leaves
Final == {COMPLETED, CANCELLED, REJECTED}

\* C27: when requests overlap, no step changes the status of a record
\* whose stored status is completed, cancelled or rejected.
C27_FinalStatusKept ==
    [][\A id \in DOMAIN store \cap DOMAIN store' :
          store[id].status \in Final =>
              store'[id].status = store[id].status]_vars

\* C28: when requests overlap, every stored record has a
\* cancellation_reason exactly when its status is cancelled or rejected.
C28_ReasonIffCancelledOrRejected ==
    \A id \in DOMAIN store :
        (store[id].cancellation_reason # None)
            <=> (store[id].status \in {CANCELLED, REJECTED})

\* C29: in every reachable state every stored record that is upcoming or
\* completed has an appointment_date.
C29_BookedHasDate ==
    \A id \in DOMAIN store :
        store[id].status \in {UPCOMING, COMPLETED} =>
            store[id].appointment_date # NoDate

\* a public request has been confirmed: the record it was created as had
\* no date, the stored record is upcoming with the date of the payload
C29_Witness ==
    /\ Last(SeqProc, "confirm")
    /\ req[SeqProc].id \in DOMAIN store
    /\ store[req[SeqProc].id].status = UPCOMING
    /\ store[req[SeqProc].id].appointment_date # NoDate
    /\ store[req[SeqProc].id].appointment_date
           = req[SeqProc].result.value.appointment_date

\* C30: in every reachable state every stored record that is pending has
\* no appointment_date.
C30_PendingHasNoDate ==
    \A id \in DOMAIN store :
        store[id].status = PENDING => store[id].appointment_date = NoDate

\* the fields each transition may change
FrameOf(op) ==
    CASE op = "confirm" ->
            {"status", "appointment_date", "notes", "updated_at"}
      [] op = "reschedule" -> {"appointment_date", "updated_at"}
      [] op \in {"cancel", "reject"} ->
            {"status", "cancellation_reason", "updated_at"}
      [] op = "complete" -> {"status", "notes", "updated_at"}

\* C31: no step changes the id, name, email, contact or created_at of a
\* stored record; a step of a confirm, reschedule, cancel, reject or
\* complete adds and removes no record, leaves every record other than
\* its own as it was, and changes of its own record only the fields of
\* its transition (confirm: status, appointment_date, notes, updated_at;
\* reschedule: appointment_date, updated_at; cancel and reject: status,
\* cancellation_reason, updated_at; complete: status, notes, updated_at).
C31_TransitionFrame ==
    [][/\ \A i \in DOMAIN store \cap DOMAIN store' :
             \A f \in {"id", "name", "email", "contact", "created_at"} :
                 store'[i][f] = store[i][f]
       /\ \A p \in Procs :
             LET r == req[p]
             IN  (r.op \in Transitions /\ r.pc \notin {"idle", "done"}
                     /\ req'[p] # r) =>
                     /\ DOMAIN store' = DOMAIN store
                     /\ \A i \in DOMAIN store \ {r.id} :
                           store'[i] = store[i]
                     /\ r.id \in DOMAIN store =>
                           \A f \in DOMAIN store[r.id] \ FrameOf(r.op) :
                               store'[r.id][f] = store[r.id][f]]_vars

\* a cancelled record that holds notes and a reason has been rescheduled:
\* its date is the new one, and the other record of the table is as it
\* was created
C31_Witness ==
    /\ Last(SeqProc, "reschedule")
    /\ req[SeqProc].id \in DOMAIN store
    /\ store[req[SeqProc].id].status = CANCELLED
    /\ store[req[SeqProc].id].cancellation_reason # None
    /\ store[req[SeqProc].id].appointment_date
           = req[SeqProc].result.value.appointment_date
    /\ store[OtherId] \in OtherRecords

\* C32: a get_by_email that has returned did not fail; when the table
\* holds pending records with its email, also several of them, it returned
\* one of them, and when it holds none it returned no record; so it never
\* returns a record that is not pending or has another email.
C32_PendingByEmail ==
    \A p \in Procs :
        LET r == req[p]
            found == {i \in DOMAIN store :
                         /\ store[i].email = r.data.email
                         /\ store[i].status = PENDING}
        IN  (r.op = "get_by_email" /\ r.pc = "done") =>
                /\ r.result.kind = "ok"
                /\ IF found = {}
                   THEN r.result.value = NoAppt
                   ELSE \E i \in found : r.result.value = store[i]

====
